---- MODULE Spec2Model ----
(***************************************************************************)
(* AudioFX (The Bellmore): the lazily created audio context, the one-shot  *)
(* effects, and the look-ahead music scheduler.                            *)
(*                                                                         *)
(* Times are integers in microseconds (1.92 s = 1920000), gains are        *)
(* integers in thousandths (0.18 = 180).  The host is a single-threaded    *)
(* event loop: a public call runs to completion, promise reactions run as  *)
(* microtasks before the next task, timers and the resume of the context   *)
(* are tasks of their own.                                                 *)
(*                                                                         *)
(* Timers exist only once the context runs (the first is armed by the      *)
(* reaction of musicStart), so setTimeout delays are measured on the audio *)
(* clock; time that passes before the context runs changes nothing and is  *)
(* left out.  A due timer may fire arbitrarily late.                       *)
(***************************************************************************)
EXTENDS Integers, Sequences, FiniteSets, TLC

VARIABLES
  hasCtor,          \* window.AudioContext || window.webkitAudioContext exists
  ctx,              \* "null", or the state of the context: "suspended" / "running"
  master,           \* NULL, or the target gain of the effects bus
  _vol,             \* effects volume
  currentTime,      \* ctx.currentTime (frozen while the context is suspended)
  pendingResume,    \* reactions waiting on a c.resume() promise, in call order
  microtasks,       \* reactions of already resolved promises, in call order
  _musicPlaying,
  _musicScheduled,
  _musicTimer,      \* 0 (null) or the id of the last tick timer armed
  _musicBus,        \* NULL, or the target gain of the music bus
  _phraseCount,
  timers,           \* armed setTimeout timers: [id, due, fn]
  blocks,           \* history: every 2-bar block generated, in order
  fx,               \* history: every effect voice scheduled: its start time as an
                    \* offset from the clock at the time it was scheduled, and how
                    \* far the clock moved since the call
  raised,           \* history: an exception reached the caller of a public operation
  period,           \* history: number of Idle -> Running transitions
  inits,            \* history: number of executions of musicStart's reaction
  lastTick,         \* history: the last execution of _musicTick that passed its guard
  stopSeen,         \* history: musicStop() has been called
  stopLatch,        \* history: musicStop() returned and musicStart() was not called since
  calls,            \* number of public operations called
  lastRestore,      \* history: NULL, or the music bus gain the last restore timer
                    \* that fired found
  lastFade,         \* history: NULL, or the target of the last musicFade call
  volLog,           \* history: the arguments of the setVolume calls, in order
  lab               \* the pure functions on their own: the inputs drawn, then the
                    \* function applied and its results (idle in the program's runs)

vars == <<hasCtor, ctx, master, _vol, currentTime, pendingResume, microtasks,
          _musicPlaying, _musicScheduled, _musicTimer, _musicBus, _phraseCount,
          timers, blocks, fx, raised, period, inits, lastTick,
          stopSeen, stopLatch, calls, lastRestore, lastFade, volLog, lab>>

\* the variables of the running program
progVars == <<hasCtor, ctx, master, _vol, currentTime, pendingResume, microtasks,
              _musicPlaying, _musicScheduled, _musicTimer, _musicBus, _phraseCount,
              timers, blocks, fx, raised, period, inits, lastTick,
              stopSeen, stopLatch, calls, lastRestore, lastFade, volLog>>

(* ---- bounds of the model ---- *)
MaxCalls == 3
MaxClockTicks == 5
ResumeLatency == 20000
MaxPhraseIdx == 7
MaxCycles == 2
MaxOnceTicks == 9

(* ---- program constants ---- *)
NULL == 0 - 1
InitialVol == 325
_BAR == 1920000
_BEAT == _BAR \div 4
\* (variant: a look-ahead window of four bars)
_AHEAD_fourBars == _BAR * 4
_AHEAD == _BAR * 2
TwoBars == _BAR * 2
StartEpsilon == 100000
TickDelay == (_BAR * 1000) \div 2000
RestoreDelay == 2500000
MusicBusDefault == 180
SecondDing == 180000

_CHORDS == << <<294, 370, 440>>, <<440, 554, 659>>, <<247, 294, 370>>, <<392, 494, 587>> >>

(* the clock moves in steps of one tick interval; a due timer may fire any *)
(* number of steps late (a stalled host)                                  *)
Steps == {TickDelay}
MaxClock == MaxClockTicks * TickDelay


(* ---- the mutable program state as one record, so that the reactions run ---- *)
(* ---- in one task compose sequentially                                   ---- *)
St == [ctx |-> ctx, master |-> master, time |-> currentTime,
       playing |-> _musicPlaying,
       sched |-> _musicScheduled, timer |-> _musicTimer, bus |-> _musicBus,
       count |-> _phraseCount, timers |-> timers,
       blocks |-> blocks, fx |-> fx, raised |-> raised, period |-> period, restored |-> lastRestore,
       inits |-> inits, lastTick |-> lastTick,
       fresh |-> FALSE]   \* set by musicStart's reaction until its first block

Commit(s) ==
  /\ ctx' = s.ctx
  /\ master' = s.master
  /\ currentTime' = s.time
  /\ _musicPlaying' = s.playing
  /\ _musicScheduled' = s.sched
  /\ _musicTimer' = s.timer
  /\ _musicBus' = s.bus
  /\ _phraseCount' = s.count
  /\ timers' = s.timers
  /\ blocks' = s.blocks
  /\ fx' = s.fx
  /\ raised' = s.raised
  /\ lastRestore' = s.restored
  /\ period' = s.period
  /\ inits' = s.inits
  /\ lastTick' = s.lastTick
  /\ UNCHANGED lab

(* ---- context bootstrap ---- *)

\* getCtx(): creates the context and the master gain on first use; `st` is the
\* state the platform creates the context in.
getCtx(s, st) ==
  IF s.ctx = "null"
    THEN IF ~hasCtor THEN s
         ELSE [s EXCEPT !.ctx = st, !.master = _vol]
    ELSE s

\* (variant: ready() without the `if (!c)` test reads c.state of null)
ready_nocheck(s) ==
  IF s.ctx = "null" THEN "throw"
  ELSE IF s.ctx = "suspended" THEN "pending"
  ELSE "resolved"

\* ready(): what becomes of the call, given the state getCtx() left:
\* "reject" (Promise.reject), "pending" (c.resume()), "resolved"
\* (Promise.resolve()); "throw" is a synchronous exception.
ready(s) ==
  IF s.ctx = "null" THEN "reject"
  ELSE IF s.ctx = "suspended" THEN "pending"
  ELSE "resolved"

\* now()
now(s) == IF s.ctx # "null" THEN s.time ELSE 0

\* the handle setTimeout returns next: a positive integer no armed timer has.
\* (The handle of a timer that fired or was cleared is free again: at the end
\* of every task _musicTimer is null or the handle of an armed timer.)
FreshId(s) == CHOOSE i \in 1..(Cardinality(s.timers) + 1) : \A t \in s.timers : t.id # i

\* setTimeout(fn, delay): arms a timer; its handle is FreshId(s)
setTimeout(s, fn, delay) ==
  [s EXCEPT !.timers = @ \cup {[id |-> FreshId(s), due |-> s.time + delay, fn |-> fn]}]

\* clearTimeout(id)
clearTimeout(s, id) == [s EXCEPT !.timers = {t \in @ : t.id # id}]

(* ---- one-shot effects ---- *)

\* _ding(t, freq): one bell strike starting at t
_ding(s, t, cb) ==
  [s EXCEPT !.fx = @ \cup {[kind |-> "bell", off |-> t - s.time,
                            wait |-> s.time - cb.called,
                            live |-> s.ctx = "running"]}]

\* the reaction of playBell: two strikes, the second 0.18 s later
playBellReaction(s, cb) ==
  LET t == now(s)
  IN  _ding(_ding(s, t, cb), t + SecondDing, cb)

\* (variant: the start time is the clock value read when the function was called)
playVoiceReaction_stale(s, cb) ==
  [s EXCEPT !.fx = @ \cup {[kind |-> cb.fn, off |-> cb.called - s.time,
                            wait |-> s.time - cb.called,
                            live |-> s.ctx = "running"]}]

\* the reaction of playGhost / playTick / playBuzz: one voice starting at now()
playVoiceReaction(s, cb) ==
  LET t == now(s)
  IN  [s EXCEPT !.fx = @ \cup {[kind |-> cb.fn, off |-> t - s.time,
                                wait |-> s.time - cb.called,
                            live |-> s.ctx = "running"]}]

(* ---- music engine ---- *)

\* _musicBusEnsure(): creates the music bus once.  ctx.createGain() on a null
\* ctx would throw inside the caller; every caller runs after ready() resolved.
_musicBusEnsure(s) ==
  IF s.bus # NULL \/ s.ctx = "null" THEN s
  ELSE [s EXCEPT !.bus = MusicBusDefault]

\* the chord index _scheduleBars derives from the phrase counter
ChordIndex(n) == (n \div 2) % Len(_CHORDS)

\* (variant: the watermark moves on by one bar)
_scheduleBars_oneBar(s, fromT) ==
  IF ~s.playing THEN s
  ELSE LET s1 == _musicBusEnsure(s)
       IN  [s1 EXCEPT
             !.blocks = Append(@, [start |-> fromT, idx |-> s.count,
                                   ci |-> ChordIndex(s.count), at |-> s.time,
                                   period |-> s.period, latched |-> stopLatch,
                                   first |-> s.fresh]),
             !.fresh = FALSE,
             !.count = @ + 1,
             !.sched = fromT + _BAR]

\* _scheduleBars(fromT): one 2-bar block starting at fromT
_scheduleBars(s, fromT) ==
  IF ~s.playing THEN s
  ELSE LET s1 == _musicBusEnsure(s)
       IN  [s1 EXCEPT
             !.blocks = Append(@, [start |-> fromT, idx |-> s.count,
                                   ci |-> ChordIndex(s.count), at |-> s.time,
                                   period |-> s.period, latched |-> stopLatch,
                                   first |-> s.fresh]),
             !.fresh = FALSE,
             !.count = @ + 1,
             !.sched = fromT + _BAR * 2]

\* (variant: an `if` in place of the `while`)
TickLoop_once(s, ahead) ==
  IF s.sched < ahead THEN _scheduleBars(s, s.sched) ELSE s

\* the while loop of _musicTick
RECURSIVE TickLoop(_, _)
TickLoop(s, ahead) ==
  IF s.sched < ahead THEN TickLoop(_scheduleBars(s, s.sched), ahead) ELSE s

\* (variant: the tick does not arm the next one)
_musicTick_noRearm(s) ==
  IF ~s.playing THEN s
  ELSE LET s1 == TickLoop(s, s.time + _AHEAD)
           gap == IF s.fresh THEN 0 ELSE s.time - s.lastTick.at
       IN  [s1 EXCEPT !.lastTick = [n |-> 1, at |-> s.time,
                                    pre |-> s.sched, post |-> s1.sched,
                                    preCount |-> s.count, postCount |-> s1.count,
                                    gap |-> gap,
                                    maxGap |-> IF s.fresh \/ gap > s.lastTick.maxGap
                                                 THEN gap ELSE s.lastTick.maxGap]]

\* (variant: the loop fills up to the clock, with no look-ahead)
_musicTick_noAhead(s) ==
  IF ~s.playing THEN s
  ELSE LET s1 == TickLoop(s, s.time)
           s2 == setTimeout(s1, "tick", TickDelay)
           gap == IF s.fresh THEN 0 ELSE s.time - s.lastTick.at
       IN  [s2 EXCEPT !.timer = FreshId(s1),
                      !.lastTick = [n |-> 1, at |-> s.time,
                                    pre |-> s.sched, post |-> s1.sched,
                                    preCount |-> s.count, postCount |-> s1.count,
                                    gap |-> gap,
                                    maxGap |-> IF s.fresh \/ gap > s.lastTick.maxGap
                                                 THEN gap ELSE s.lastTick.maxGap]]

\* _musicTick()
_musicTick(s) ==
  IF ~s.playing THEN s
  ELSE LET ahead == s.time + _AHEAD
           s1 == TickLoop(s, ahead)
           s2 == setTimeout(s1, "tick", TickDelay)
           \* history: the time since the tick before, 0 at the tick of a start
           gap == IF s.fresh THEN 0 ELSE s.time - s.lastTick.at
       IN  [s2 EXCEPT !.timer = FreshId(s1),
                      !.lastTick = [n |-> 1, at |-> s.time,
                                    pre |-> s.sched, post |-> s1.sched,
                                    preCount |-> s.count, postCount |-> s1.count,
                                    gap |-> gap,
                                    maxGap |-> IF s.fresh \/ gap > s.lastTick.maxGap
                                                 THEN gap ELSE s.lastTick.maxGap]]

\* (variant: the watermark starts at the clock itself, without the 0.1 s)
musicStartReaction_noEpsilon(s) ==
  LET s1 == _musicBusEnsure(s)
      s2 == [s1 EXCEPT !.playing = TRUE,
                       !.sched = s.time,
                       !.count = 0,
                       !.fresh = TRUE,
                       !.period = IF s.playing THEN @ ELSE @ + 1,
                       !.inits = @ + 1]
  IN  _musicTick(s2)

\* the reaction of musicStart, run when the promise of ready() resolves
musicStartReaction(s) ==
  LET s1 == _musicBusEnsure(s)
      s2 == [s1 EXCEPT !.playing = TRUE,
                       !.sched = s.time + StartEpsilon,
                       !.count = 0,
                       !.fresh = TRUE,
                       !.period = IF s.playing THEN @ ELSE @ + 1,
                       !.inits = @ + 1]
  IN  _musicTick(s2)

\* the body of musicStop
musicStopBody(s) ==
  LET s1 == [s EXCEPT !.playing = FALSE]
      s2 == IF s1.timer # 0 THEN [clearTimeout(s1, s1.timer) EXCEPT !.timer = 0] ELSE s1
  IN  IF s2.bus # NULL /\ s2.ctx # "null"
        THEN setTimeout([s2 EXCEPT !.bus = 0], "restore", RestoreDelay)
        ELSE s2

\* (variant: the gain is only put back while the bus is still silent)
restoreBus_ifSilent(s) ==
  IF s.bus = 0 THEN [s EXCEPT !.bus = MusicBusDefault, !.restored = s.bus] ELSE s

\* the timer musicStop arms: puts the music bus back to its default gain
restoreBus(s) ==
  IF s.bus # NULL THEN [s EXCEPT !.bus = MusicBusDefault, !.restored = s.bus] ELSE s

\* the body of musicFade
musicFadeBody(s, toVol) ==
  IF s.bus # NULL /\ s.ctx # "null" THEN [s EXCEPT !.bus = toVol] ELSE s

\* (variant: Math.min(1, v) alone)
Clamp_upperOnly(v) == IF v > 1000 THEN 1000 ELSE v

\* Math.max(0, Math.min(1, v))
Clamp(v) == IF v < 0 THEN 0 ELSE IF v > 1000 THEN 1000 ELSE v

(* ---- music voices: what one call schedules.  Frequencies in tenths of ---- *)
(* ---- a hertz; zero is the time the gain envelope is back at 0, stop   ---- *)
(* ---- the time the oscillator is told to stop                          ---- *)

\* (variant: the oscillator stops where the release ramp begins)
_note_stopAtRelease(freq, startT, dur, peakGain) ==
  [voice |-> "note", freq |-> freq * 10, start |-> startT, dur |-> dur,
   silentAt |-> startT, peak |-> peakGain,
   atk |-> startT + 8000, rel |-> startT + (dur * 85) \div 100,
   zero |-> startT + dur + 40000, stop |-> startT + (dur * 85) \div 100]

\* _note(freq, startT, dur, peakGain, busNode)
_note(freq, startT, dur, peakGain) ==
  [voice |-> "note", freq |-> freq * 10, start |-> startT, dur |-> dur,
   silentAt |-> startT, peak |-> peakGain,
   atk |-> startT + 8000, rel |-> startT + (dur * 85) \div 100,
   zero |-> startT + dur + 40000, stop |-> startT + dur + 40000 + 10000]

\* _melNote(freq, startT, dur, peakGain, busNode)
_melNote(freq, startT, dur, peakGain) ==
  [voice |-> "mel", freq |-> freq * 10, start |-> startT, dur |-> dur,
   silentAt |-> startT, peak |-> peakGain,
   atk |-> startT + 12000, rel |-> startT + (dur * 78) \div 100,
   zero |-> startT + dur + 60000, stop |-> startT + dur + 60000 + 10000]

\* _bassNote(freq, startT, busNode): one octave down
_bassNote(freq, startT) ==
  [voice |-> "bass", freq |-> (freq * 10) \div 2, start |-> startT, dur |-> 450000,
   silentAt |-> startT, peak |-> 550,
   atk |-> startT + 10000, rel |-> startT + 450000,
   zero |-> startT + 450000 + 20000, stop |-> startT + 450000 + 30000]

(* ---- the envelope of the one-shot effects: silentAt is the time of    ---- *)
(* ---- setValueAtTime(0, .), zero the time of the last ramp, to 0       ---- *)

\* _ding(t, freq): crack, settle, ring, tail
dingVoice(t) ==
  [voice |-> "bell", start |-> t, silentAt |-> t,
   atk |-> t + 1000, rel |-> t + 1100000,
   zero |-> t + 1100000 + 40000, stop |-> t + 1100000 + 40000 + 10000]

\* playGhost({duration}): rel = t + (opts.duration || 2.4)
ghostVoice(t, duration) ==
  LET rel == t + (IF duration = 0 THEN 2400000 ELSE duration)
  IN  [voice |-> "ghost", start |-> t, silentAt |-> t,
       atk |-> t + 180000, rel |-> rel,
       zero |-> rel + 60000, stop |-> rel + 60000 + 10000]

\* playTick
tickVoice(t) ==
  [voice |-> "tick", start |-> t, silentAt |-> t,
   atk |-> t + 1000, rel |-> t + 55000,
   zero |-> t + 55000 + 8000, stop |-> t + 55000 + 8000 + 5000]

\* playBuzz
buzzVoice(t) ==
  [voice |-> "buzz", start |-> t, silentAt |-> t,
   atk |-> t + 10000, rel |-> t + 180000,
   zero |-> t + 180000 + 15000, stop |-> t + 180000 + 15000 + 5000]

_PENTA == <<147, 294, 330, 370, 440, 494, 587, 659, 740, 880>>

shapes == << <<4, 5, 6, 7, 6, 5, 4, 3>>,
             <<3, 4, 6, 7, 9, 7, 6, 4>>,
             <<5, 6, 7, 6, 4, 3, 4, 5>>,
             <<7, 6, 5, 4, 5, 6, 7, 9>> >>

\* the index into _PENTA that _phrase uses for slot i of phrase phraseIdx
\* (sequences are 1-based: shapes[k + 1] is the source's shapes[k])
PitchIndex(phraseIdx, i) ==
  shapes[(phraseIdx % Len(shapes)) + 1][i + 1] % Len(_PENTA)

\* the slots of a phrase that sound: i === 3 and i === 7 are skipped
SoundingSlots == (0..7) \ {3, 7}

\* (variant: the shape is picked modulo 3)
_phrase_threeShapes(barStart, phraseIdx) ==
  { _melNote(_PENTA[(shapes[(phraseIdx % 3) + 1][i + 1] % Len(_PENTA)) + 1],
             barStart + i * (_BEAT \div 2),
             (_BEAT * 48) \div 100, 550) : i \in SoundingSlots }

\* _phrase(barStart, phraseIdx, busNode): the melody notes of one block
_phrase(barStart, phraseIdx) ==
  { _melNote(_PENTA[PitchIndex(phraseIdx, i) + 1],
             barStart + i * (_BEAT \div 2),
             (_BEAT * 48) \div 100, 550) : i \in SoundingSlots }

\* (variant: the chord tones start together)
_arp_noRoll(chord, barStart, beat) ==
  { _note(chord[i + 1], barStart + beat * _BEAT, (_BEAT * 16) \div 10, 280) :
      i \in 0..(Len(chord) - 1) }

\* _arp(chord, barStart, beat, busNode): the chord rolled upward
_arp(chord, barStart, beat) ==
  { _note(chord[i + 1], barStart + beat * _BEAT + i * 55000, (_BEAT * 16) \div 10, 280) :
      i \in 0..(Len(chord) - 1) }

\* the notes _scheduleBars(fromT) submits for block b
NotesOf(b) ==
  LET chord == _CHORDS[b.ci + 1]
  IN  {_bassNote(chord[1], b.start)}
        \cup _arp(chord, b.start, 0)
        \cup _arp(chord, b.start, 2)
        \cup {_bassNote(chord[1], b.start + _BAR)}
        \cup _arp(chord, b.start + _BAR, 1)
        \cup _arp(chord, b.start + _BAR, 3)
        \cup _phrase(b.start, b.idx)

(* ---- promise reactions ---- *)

RunReaction(s, cb) ==
  IF cb.fn = "music" THEN musicStartReaction(s)
  ELSE IF cb.fn = "bell" THEN playBellReaction(s, cb)
  ELSE playVoiceReaction(s, cb)

RECURSIVE RunAll(_, _)
RunAll(s, q) == IF q = << >> THEN s ELSE RunAll(RunReaction(s, Head(q)), Tail(q))

(* ---- initial state: the script has loaded, nothing was called ---- *)

ProgramInit ==
  /\ hasCtor \in BOOLEAN
  /\ ctx = "null"
  /\ master = NULL
  /\ _vol = InitialVol
  /\ currentTime = 0
  /\ pendingResume = << >>
  /\ microtasks = << >>
  /\ _musicPlaying = FALSE
  /\ _musicScheduled = 0
  /\ _musicTimer = 0
  /\ _musicBus = NULL
  /\ _phraseCount = 0
  /\ timers = {}
  /\ blocks = << >>
  /\ fx = {}
  /\ raised = FALSE
  /\ period = 0
  /\ inits = 0
  /\ lastTick = [n |-> 0, at |-> 0, pre |-> 0, post |-> 0, preCount |-> 0, postCount |-> 0,
                 gap |-> 0, maxGap |-> 0]
  /\ stopSeen = FALSE
  /\ stopLatch = FALSE
  /\ calls = 0
  /\ lastRestore = NULL
  /\ lastFade = NULL
  /\ volLog = << >>

Init ==
  /\ ProgramInit
  /\ lab = [op |-> "none"]

(* ---- public operations ---- *)

\* ready().then(reaction).catch(function () {}): the common shape of playBell,
\* playGhost, playTick, playBuzz and musicStart
Defer(fn, st) ==
  LET s1 == getCtx(St, st)
      r  == ready(s1)
      cb == [fn |-> fn, called |-> now(s1)]
  IN  /\ Commit(IF r = "throw" THEN [s1 EXCEPT !.raised = TRUE] ELSE s1)
      /\ pendingResume' = IF r = "pending" THEN Append(pendingResume, cb) ELSE pendingResume
      /\ microtasks' = IF r = "resolved" THEN Append(microtasks, cb) ELSE microtasks

Called ==
  /\ calls < MaxCalls
  /\ calls' = calls + 1

playBell ==
  /\ Called
  /\ \E st \in {"suspended", "running"} : Defer("bell", st)
  /\ UNCHANGED <<hasCtor, _vol, volLog, lastFade, stopSeen, stopLatch>>

playGhost ==
  /\ Called
  /\ \E st \in {"suspended", "running"} : Defer("ghost", st)
  /\ UNCHANGED <<hasCtor, _vol, volLog, lastFade, stopSeen, stopLatch>>

playTick ==
  /\ Called
  /\ \E st \in {"suspended", "running"} : Defer("tick", st)
  /\ UNCHANGED <<hasCtor, _vol, volLog, lastFade, stopSeen, stopLatch>>

playBuzz ==
  /\ Called
  /\ \E st \in {"suspended", "running"} : Defer("buzz", st)
  /\ UNCHANGED <<hasCtor, _vol, volLog, lastFade, stopSeen, stopLatch>>

musicStart ==
  /\ Called
  /\ IF _musicPlaying
       THEN /\ Commit(St)
            /\ UNCHANGED <<pendingResume, microtasks>>
       ELSE \E st \in {"suspended", "running"} : Defer("music", st)
  /\ stopLatch' = FALSE
  /\ UNCHANGED <<hasCtor, _vol, volLog, lastFade, stopSeen>>

musicStop ==
  /\ Called
  /\ Commit(musicStopBody(St))
  /\ stopSeen' = TRUE
  /\ stopLatch' = TRUE
  /\ UNCHANGED <<hasCtor, _vol, volLog, lastFade, pendingResume, microtasks>>

\* target gains handed to musicFade: silence and 0.5
FadeTargets == {0, 500}

\* musicFade(toVol, timeConst)
musicFadeTo(toVol) ==
  /\ Called
  /\ Commit(musicFadeBody(St, toVol))
  /\ lastFade' = toVol
  /\ UNCHANGED <<hasCtor, _vol, volLog, pendingResume, microtasks, stopSeen, stopLatch>>

musicFade == \E toVol \in FadeTargets : musicFadeTo(toVol)

setVolume ==
  /\ Called
  /\ \E v \in {0 - 1000, 800, 2000} :
       /\ _vol' = Clamp(v)
       /\ volLog' = Append(volLog, v)
       /\ Commit(IF master # NULL THEN [St EXCEPT !.master = Clamp(v)] ELSE St)
  /\ UNCHANGED <<hasCtor, lastFade, pendingResume, microtasks, stopSeen, stopLatch>>

\* get ctx(): reads the handle
ctxAccessor ==
  /\ Called
  /\ Commit(St)
  /\ UNCHANGED <<hasCtor, _vol, volLog, lastFade, pendingResume, microtasks, stopSeen, stopLatch>>

(* ---- the host ---- *)

\* the microtask checkpoint at the end of a task: the reactions of the
\* resolved promises run in order
RunMicrotasks ==
  /\ microtasks # << >>
  /\ Commit(RunAll(St, microtasks))
  /\ microtasks' = << >>
  /\ UNCHANGED <<hasCtor, _vol, volLog, lastFade, pendingResume, stopSeen, stopLatch, calls>>

\* the context starts (user gesture): every c.resume() promise resolves and
\* the reactions run in call order; the clock may already have moved by d
Resume ==
  /\ ctx = "suspended"
  /\ microtasks = << >>
  /\ \E d \in {0, ResumeLatency} :
       Commit(RunAll([St EXCEPT !.ctx = "running", !.time = @ + d],
                     pendingResume))
  /\ pendingResume' = << >>
  /\ UNCHANGED <<hasCtor, _vol, volLog, lastFade, microtasks, stopSeen, stopLatch, calls>>

\* time passes while the context runs
Advance ==
  /\ microtasks = << >>
  /\ ctx = "running"
  /\ \E d \in Steps :
       /\ currentTime + d <= MaxClock
       /\ Commit([St EXCEPT !.time = @ + d])
  /\ UNCHANGED <<hasCtor, _vol, volLog, lastFade, pendingResume, microtasks, stopSeen, stopLatch, calls>>

\* the timer the host runs next: due, and no armed timer is due before it
NextDue(t) ==
  /\ t.due <= currentTime
  /\ \A u \in timers : u.due > t.due \/ (u.due = t.due /\ u.id >= t.id)

\* a due timer fires, however late
FireTimer ==
  /\ microtasks = << >>
  /\ \E t \in timers :
       /\ NextDue(t)
       /\ LET s0 == [St EXCEPT !.timers = @ \ {t}]
          IN  Commit(IF t.fn = "tick" THEN _musicTick(s0) ELSE restoreBus(s0))
  /\ UNCHANGED <<hasCtor, _vol, volLog, lastFade, pendingResume, microtasks, stopSeen, stopLatch, calls>>

Next ==
  \/ playBell
  \/ playGhost
  \/ playTick
  \/ playBuzz
  \/ musicStart
  \/ musicStop
  \/ musicFade
  \/ setVolume
  \/ ctxAccessor
  \/ RunMicrotasks
  \/ Resume
  \/ Advance
  \/ FireTimer

Spec == Init /\ [][Next]_vars

\* ---------------------------------------------------------------------------
\* One musicStart() and the ticks that follow it, over a longer stretch of the
\* clock.  Besides whole tick intervals the clock can move by the one delay
\* that puts a tick exactly one look-ahead window before the end of the
\* first block (_AHEAD + StartEpsilon after the start).

OnceSteps == {TickDelay, _AHEAD + StartEpsilon - TickDelay}
MaxOnceClock == MaxOnceTicks * TickDelay

musicStartOnce ==
  /\ calls = 0
  /\ musicStart

AdvanceOnce ==
  /\ microtasks = << >>
  /\ ctx = "running"
  /\ \E d \in OnceSteps :
       /\ currentTime + d <= MaxOnceClock
       /\ Commit([St EXCEPT !.time = @ + d])
  /\ UNCHANGED <<hasCtor, _vol, volLog, lastFade, pendingResume, microtasks, stopSeen, stopLatch, calls>>

NextOnce ==
  \/ musicStartOnce
  \/ RunMicrotasks
  \/ Resume
  \/ AdvanceOnce
  \/ FireTimer

SpecOnce == Init /\ [][NextOnce]_vars

\* the same with a host that keeps going: the clock keeps advancing while it
\* can and a due timer is run in the end
LiveOnce == SpecOnce /\ WF_vars(AdvanceOnce) /\ WF_vars(FireTimer)

\* ---------------------------------------------------------------------------
\* The pure functions on their own: the inputs are drawn at the start, one
\* action per function applies it and keeps what it returned.

\* start times on the audio clock handed to the functions
LabTimes == {0, StartEpsilon, TwoBars + StartEpsilon}

\* durations handed to the voices: 1 ms, the melody and arpeggio durations
\* of the scheduler, the default duration of the ghost
LabDurs == {1000, (_BEAT * 48) \div 100, (_BEAT * 16) \div 10, 2400000}

\* the functions that create a voice
VoiceKinds == {"_note", "_melNote", "_bassNote", "_ding", "playGhost",
               "playTick", "playBuzz"}

\* the inputs: a phrase counter n, a number k of whole cycles through the
\* shapes, a start time t, a duration dur
LabInputs ==
  [op : {"input"}, n : 0..MaxPhraseIdx, k : 0..MaxCycles, t : LabTimes,
   dur : LabDurs]

PureInit ==
  /\ ProgramInit
  /\ lab \in LabInputs

\* the note of a phrase as heard from the start of its block
Shifted(nt, base) ==
  [nt EXCEPT !.start = @ - base, !.silentAt = @ - base, !.atk = @ - base, !.rel = @ - base,
             !.zero = @ - base, !.stop = @ - base]

\* _phrase for the block of counter n at t, and for the block k cycles of
\* shapes later, which starts k * Len(shapes) blocks after it
ApplyPhrase ==
  /\ lab.op = "input"
  /\ lab' = [op |-> "_phrase", n |-> lab.n, k |-> lab.k, t |-> lab.t,
             index |-> [i \in 0..7 |-> PitchIndex(lab.n, i)],
             notes |-> _phrase(lab.t, lab.n),
             later |-> _phrase(lab.t + lab.k * Len(shapes) * TwoBars,
                               lab.n + lab.k * Len(shapes))]
  /\ UNCHANGED progVars

\* the voice that function kind creates for start time t and duration dur
Voice(kind, t, dur) ==
  CASE kind = "_note" -> _note(_PENTA[1], t, dur, 280)
    [] kind = "_melNote" -> _melNote(_PENTA[1], t, dur, 550)
    [] kind = "_bassNote" -> _bassNote(_PENTA[1], t)
    [] kind = "_ding" -> dingVoice(t)
    [] kind = "playGhost" -> ghostVoice(t, dur)
    [] kind = "playTick" -> tickVoice(t)
    [] kind = "playBuzz" -> buzzVoice(t)

ApplyVoice ==
  /\ lab.op = "input"
  /\ \E kind \in VoiceKinds :
       lab' = [op |-> "voice", kind |-> kind, t |-> lab.t, dur |-> lab.dur,
               out |-> Voice(kind, lab.t, lab.dur)]
  /\ UNCHANGED progVars

PureNext ==
  \/ ApplyPhrase
  \/ ApplyVoice

PureSpec == PureInit /\ [][PureNext]_vars

\* ---------------------------------------------------------------------------
\* simulateOneShift (the balance simulation): lab holds its locals.

SHIFT_UNITS == 16
OVERHEAD_MAX_UNITS == 1

ACTION_BASE_UNITS ==
  [carry |-> 2, checkin |-> 4, stopby |-> 4, task |-> 4, ghost |-> 4, request |-> 6]

\* ACTIONS = Object.keys(ACTION_BASE_UNITS)
ActionNames == DOMAIN ACTION_BASE_UNITS

\* randOverhead(): OVERHEAD_MAX_UNITS or 0
Overheads == {0, OVERHEAD_MAX_UNITS}

\* (variant: the filter forgets the overhead)
affordable_baseOnly(unitsLeft) ==
  {a \in ActionNames : unitsLeft >= ACTION_BASE_UNITS[a]}

\* ACTIONS.filter(a => unitsLeft >= ACTION_BASE_UNITS[a] + OVERHEAD_MAX_UNITS)
affordable(unitsLeft) ==
  {a \in ActionNames : unitsLeft >= ACTION_BASE_UNITS[a] + OVERHEAD_MAX_UNITS}

\* the locals at the head of the loop; spent and retried are history: the
\* costs of the counted actions, and whether the `continue` branch ran
SimInit ==
  /\ ProgramInit
  /\ lab = [op |-> "sim", pc |-> "loop", unitsLeft |-> SHIFT_UNITS,
            counts |-> [a \in ActionNames |-> 0], actionsTaken |-> 0,
            spent |-> 0, retried |-> FALSE]

\* one iteration that does not break: weightedChoice returns a member of
\* affordable, whatever Math.random gives
SimIterate ==
  /\ lab.op = "sim"
  /\ lab.pc = "loop"
  /\ \E pick \in affordable(lab.unitsLeft) : \E overhead \in Overheads :
       LET cost == ACTION_BASE_UNITS[pick] + overhead
       IN  lab' = IF cost > lab.unitsLeft
                    THEN [lab EXCEPT !.retried = TRUE]
                    ELSE [lab EXCEPT !.unitsLeft = @ - cost,
                                     !.counts[pick] = @ + 1,
                                     !.actionsTaken = @ + 1,
                                     !.spent = @ + cost]
  /\ UNCHANGED progVars

\* if (affordable.length === 0) break; return {unitsLeft, counts, actionsTaken}
SimReturn ==
  /\ lab.op = "sim"
  /\ lab.pc = "loop"
  /\ affordable(lab.unitsLeft) = {}
  /\ lab' = [lab EXCEPT !.pc = "done"]
  /\ UNCHANGED progVars

SimNext ==
  \/ SimIterate
  \/ SimReturn

\* the function runs to its end: an enabled iteration is executed
SimSpec == SimInit /\ [][SimNext]_vars /\ WF_vars(SimNext)

(* ======================= properties ======================= *)

TickTimers == {t \in timers : t.fn = "tick"}

\* C1: musicStart() is idempotent: with no musicStop() so far, however many
\* times musicStart() was called, the watermark and the phrase counter were
\* initialized at most once, at most one tick timer is armed, and no block
\* position was generated twice.
C1_StartIdempotent ==
  ~stopSeen =>
    /\ inits <= 1
    /\ Cardinality(TickTimers) <= 1
    /\ \A i, j \in DOMAIN blocks : i # j => blocks[i].start # blocks[j].start

\* C2: once musicStop() has returned and until musicStart() is called again,
\* the scheduler is Idle; and no block is ever generated in such a stretch.
C2_StopHalts ==
  /\ stopLatch => ~_musicPlaying
  /\ \A i \in DOMAIN blocks : ~blocks[i].latched

\* C3: within one Running period each block starts where the previous one
\* ended, and no two blocks ever generated have overlapping spans
\* [start, start + 2 bars).
C3_NoGapNoOverlap ==
  /\ \A i \in DOMAIN blocks :
       (i > 1 /\ blocks[i].period = blocks[i - 1].period)
         => blocks[i].start = blocks[i - 1].start + TwoBars
  /\ \A i, j \in DOMAIN blocks :
       i < j => \/ blocks[j].start >= blocks[i].start + TwoBars
                \/ blocks[i].start >= blocks[j].start + TwoBars

\* C4: the first block generated after musicStart() takes effect - also when
\* it restarts the scheduler after a musicStop() - carries phrase counter 0
\* and starts strictly after the clock read at the (re)start.
C4_RestartFresh ==
  \A i \in DOMAIN blocks :
    blocks[i].first => (blocks[i].idx = 0 /\ blocks[i].start > blocks[i].at)

\* a restart after a stop has generated its first block
C4_Witness ==
  \E i \in DOMAIN blocks : blocks[i].first /\ blocks[i].period >= 2 /\ stopSeen

\* the first tick of a musicStart() that takes effect at clock 0
FirstTickAtZero == lastTick.n = 1 /\ lastTick.preCount = 0 /\ lastTick.at = 0

\* C5 (as stated): after the first tick of a start at clock 0 the watermark
\* is >= 3.84 s and the phrase counter is 2.
C5_Original ==
  FirstTickAtZero => (lastTick.post >= 3840000 /\ lastTick.postCount = 2)

\* C5 (amended): after the first tick of a start at clock 0 the watermark is
\* 3.94 s (>= 3.84 s) and the phrase counter is 1: one 2-bar block.
C5_FirstTick ==
  FirstTickAtZero =>
    /\ lastTick.post = StartEpsilon + TwoBars
    /\ lastTick.post >= 3840000
    /\ lastTick.postCount = 1

C5_Witness == FirstTickAtZero /\ _phraseCount = 1 /\ _musicPlaying

\* C6: a tick that runs while Running never lowers the watermark, raises it
\* by a whole number of 2-bar blocks, raises the phrase counter by the same
\* number, and leaves the watermark at or beyond the tick's clock reading
\* plus the look-ahead window.
C6_TickAdvance ==
  lastTick.n = 1 =>
    /\ lastTick.post >= lastTick.pre
    /\ (lastTick.post - lastTick.pre) % TwoBars = 0
    /\ lastTick.postCount - lastTick.preCount = (lastTick.post - lastTick.pre) \div TwoBars
    /\ lastTick.post >= lastTick.at + _AHEAD

\* a late tick that generated two blocks at once
C6_Witness == lastTick.n = 1 /\ lastTick.post - lastTick.pre = 2 * TwoBars

\* C7: no note is submitted with a start time at or before the clock value
\* read by the tick that submits it.
C7_NeverPast ==
  \A i \in DOMAIN blocks : \A nt \in NotesOf(blocks[i]) : nt.start > blocks[i].at

\* C8: without an AudioContext constructor no public operation raises, and
\* the scheduler stays Idle: no timer, no context, no bus, no note, no
\* effect, nothing queued.
C8_NoPipelineNoop ==
  ~hasCtor =>
    /\ ~raised
    /\ ctx = "null" /\ master = NULL /\ _musicBus = NULL
    /\ ~_musicPlaying /\ _musicTimer = 0 /\ timers = {}
    /\ blocks = << >> /\ fx = {}
    /\ pendingResume = << >> /\ microtasks = << >>

\* three operations were called without a constructor, a musicStop() and a
\* setVolume(-1) among them
C8_Witness == ~hasCtor /\ calls = 3 /\ stopSeen /\ _vol = 0

\* C9: a play* call never raises; nothing is scheduled before the context
\* runs; and every effect voice starts at the clock value read when it is
\* scheduled (the second bell strike 0.18 s after it), however far the clock
\* moved between the call and the activation.
C9_PlayDeferred ==
  /\ ~raised
  /\ ctx # "running" => fx = {}
  /\ \A e \in fx :
       /\ e.live
       /\ IF e.kind = "bell" THEN e.off \in {0, SecondDing} ELSE e.off = 0

\* a voice called for before activation was scheduled after the clock moved
C9_Witness == \E e \in fx : e.kind # "bell" /\ e.wait > 0

\* C10: the chord of the block with phrase counter i is
\* _CHORDS[i mod len(_CHORDS)].
C10_ChordPerBlock ==
  \A i \in DOMAIN blocks : blocks[i].ci = blocks[i].idx % Len(_CHORDS)

\* C11: the melodic phrase of a block is a function of its phrase counter
\* alone and repeats with the number of shapes: heard from the start of the
\* block, the notes for counter n (pitches, slot offsets, durations, gains)
\* are those for counter n + k * 4, and every pitch index used is a valid
\* index into the scale.
C11_PhraseByCounter ==
  lab.op = "_phrase" =>
    /\ Len(shapes) = 4
    /\ { Shifted(nt, lab.t) : nt \in lab.notes }
         = { Shifted(nt, lab.t + lab.k * 4 * TwoBars) : nt \in lab.later }
    /\ \A i \in DOMAIN lab.index : lab.index[i] \in 0..(Len(_PENTA) - 1)
    /\ { nt.freq : nt \in lab.notes }
         = { _PENTA[lab.index[i] + 1] * 10 : i \in SoundingSlots }

C11_Witness ==
  /\ lab.op = "_phrase"
  /\ lab.n = 3
  /\ lab.k = 2
  /\ lab.t = StartEpsilon
  /\ Cardinality(lab.notes) = 6

\* C12: setVolume(v) clamps v to [0, 1]: after any sequence of setVolume
\* calls the volume, and the target gain of the effects bus once it exists,
\* is min(1, max(0, v)) of the last call (0.8 then -1 gives 0), and a
\* setVolume call changes neither the music bus gain nor the scheduler state
\* (running flag, watermark, phrase counter, tick timer).
C12_VolumeClamped ==
  /\ [](volLog # << >> =>
          LET v == volLog[Len(volLog)]
              target == IF v < 0 THEN 0 ELSE IF v > 1000 THEN 1000 ELSE v
          IN  /\ _vol = target
              /\ master # NULL => master = target)
  /\ [][volLog' # volLog =>
          UNCHANGED <<_musicBus, _musicPlaying, _musicScheduled,
                      _phraseCount, _musicTimer, timers>>]_vars

\* setVolume(0.8) then setVolume(-1) with the effects bus built
C12_Witness ==
  /\ volLog = <<800, 0 - 1000>>
  /\ master = 0
  /\ _musicBus # NULL

\* C13: every musicStop() made while the music bus exists arms a timer due
\* the fixed delay (2.5 s) after the call, whatever the bus gain was; nothing
\* but its firing removes that timer (no musicFade(), musicStart() or other
\* call during the delay cancels it), and its firing sets the music bus gain
\* to the default level 0.18, whatever the gain had become.
C13_StopRestoresBus ==
  [][/\ (musicStop /\ _musicBus # NULL) =>
          \E t \in timers' \ timers :
            t.fn = "restore" /\ t.due = currentTime + RestoreDelay
     /\ \A t \in timers :
          (t.fn = "restore" /\ t \notin timers') =>
            /\ t.due <= currentTime
            /\ _musicBus' = MusicBusDefault]_vars

\* a restore timer fired over a gain that musicFade(0.5) set during the delay
C13_Witness ==
  /\ stopSeen
  /\ lastRestore = 500
  /\ _musicBus = MusicBusDefault

\* C14: the armed tick timers match the scheduler state: none while Idle
\* (so musicStop() leaves none armed), exactly one while Running between
\* ticks.
C14_TimerMatchesState ==
  /\ ~_musicPlaying => TickTimers = {}
  /\ _musicPlaying => Cardinality(TickTimers) = 1

\* C15: started once, with every tick no later than one look-ahead window
\* (3.84 s) after the tick before it, every tick finds the watermark strictly
\* ahead of the clock, and every block starts strictly after the clock
\* reading of the tick that generated it.
C15_Original ==
  (inits = 1 /\ lastTick.n = 1 /\ lastTick.maxGap <= _AHEAD) =>
    /\ lastTick.pre > lastTick.at
    /\ \A i \in DOMAIN blocks : blocks[i].start > blocks[i].at

\* C15 (amended): the same with every tick strictly less than one look-ahead
\* window after the tick before it.
C15_AheadOfClock ==
  (inits = 1 /\ lastTick.n = 1 /\ lastTick.maxGap < _AHEAD) =>
    /\ lastTick.pre > lastTick.at
    /\ \A i \in DOMAIN blocks : blocks[i].start > blocks[i].at

\* a tick that came late, but inside the window, and generated a block
C15_Witness ==
  /\ inits = 1
  /\ lastTick.n = 1
  /\ lastTick.gap > TickDelay
  /\ lastTick.maxGap < _AHEAD
  /\ lastTick.postCount > lastTick.preCount
  /\ lastTick.preCount > 0

\* C16: a tick that comes after a stall longer than the look-ahead window
\* generates no block whose whole 2-bar span ends at or before the clock
\* reading of that tick, and no block position is generated twice.
C16_NoCatchUpBurst ==
  (lastTick.n = 1 /\ lastTick.gap > _AHEAD) =>
    /\ \A i \in DOMAIN blocks :
         i > Len(blocks) - (lastTick.postCount - lastTick.preCount) =>
           blocks[i].start + TwoBars > lastTick.at
    /\ \A i, j \in DOMAIN blocks : i # j => blocks[i].start # blocks[j].start

\* C17: after every block generation the watermark is at or after the
\* scheduled end (envelope back at zero, oscillator stopped) of every note
\* generated so far, the last arpeggio of the block just generated included.
C17_Original ==
  \A i \in DOMAIN blocks : \A nt \in NotesOf(blocks[i]) :
    nt.zero <= _musicScheduled /\ nt.stop <= _musicScheduled

\* the watermark against the notes of the blocks of the current run
WatermarkCoversStarts ==
  blocks # << >> =>
    /\ _musicScheduled = blocks[Len(blocks)].start + TwoBars
    /\ \A i \in DOMAIN blocks : blocks[i].period = period =>
         \A nt \in NotesOf(blocks[i]) :
           /\ nt.start < _musicScheduled
           /\ nt.stop <= _musicScheduled + 448000
    /\ \E nt \in NotesOf(blocks[Len(blocks)]) :
         /\ nt.voice = "note"
         /\ nt.zero = _musicScheduled + 438000
         /\ nt.stop = _musicScheduled + 448000

\* C17 (amended): after every block generation the watermark is the end of
\* the block just generated and lies strictly after the start of every note
\* generated since the scheduler was last started; notes may end after it,
\* by at most 0.448 s (the last arpeggio of the block).
C17_WatermarkCoversStarts ==
  [][blocks' # blocks => WatermarkCoversStarts']_vars

\* two blocks of one run, the last arpeggio ringing past the watermark
C17_Witness ==
  /\ Len(blocks) >= 2
  /\ blocks[Len(blocks)].period = period
  /\ blocks[Len(blocks) - 1].period = period
  /\ \E nt \in NotesOf(blocks[Len(blocks)]) : nt.stop > _musicScheduled

\* C18: the melodic phrase of every block spans both bars: 8 slots at a
\* fixed spacing across the whole 2-bar block, no note in the rest slots 3
\* and 7, exactly 6 melody notes, at least one of them starting in the
\* second bar.
C18_PhraseSpansBothBars ==
  \A i \in DOMAIN blocks :
    LET b == blocks[i]
        mel == {nt \in NotesOf(b) : nt.voice = "mel"}
    IN  /\ Cardinality(mel) = 6
        /\ {nt.start : nt \in mel}
             = {b.start + sl * (TwoBars \div 8) : sl \in (0..7) \ {3, 7}}
        /\ \E nt \in mel : nt.start >= b.start + _BAR

\* what _scheduleBars submitted for block b, bar by bar
BlockContents(b) ==
    LET N == NotesOf(b)
        chord == _CHORDS[b.ci + 1]
        InBar(nt, bar) == /\ nt.start >= b.start + bar * _BAR
                          /\ nt.start < b.start + (bar + 1) * _BAR
        Beat(nt, bar) == (nt.start - (b.start + bar * _BAR)) \div _BEAT
    IN  /\ \A nt \in N : nt.start >= b.start /\ nt.start < b.start + TwoBars
        /\ \A bar \in {0, 1} :
             LET bass == {nt \in N : nt.voice = "bass" /\ InBar(nt, bar)}
                 arps == {nt \in N : nt.voice = "note" /\ InBar(nt, bar)}
                 beats == {Beat(nt, bar) : nt \in arps}
             IN  /\ Cardinality(bass) = 1
                 /\ \A nt \in bass : nt.start = b.start + bar * _BAR
                 /\ Cardinality(beats) = 2
                 /\ \A bt \in beats :
                      LET roll == {nt \in arps : Beat(nt, bar) = bt}
                      IN  /\ Cardinality(roll) = 3
                          /\ \A j \in DOMAIN chord :
                               \E nt \in roll : nt.freq = chord[j] * 10
                          /\ \A x, y \in roll : \A j, k \in DOMAIN chord :
                               (j < k /\ x.freq = chord[j] * 10 /\ y.freq = chord[k] * 10)
                                 => x.start < y.start
                          /\ \A nt \in roll : nt.dur > _BEAT

\* C19: every generated block has, in each of its two bars, exactly one
\* bass note, starting at the bar start, and exactly two arpeggios of 3 notes
\* each: one note per chord tone, the start offsets strictly increasing in
\* the order of the chord tones, each longer than one beat; and every note
\* of the block starts inside [blockStart, blockStart + 2 bars).
C19_BlockContents ==
  [][\A n \in DOMAIN blocks' : n > Len(blocks) => BlockContents(blocks'[n])]_vars

\* a second block of 20 notes was generated after a first
C19_Witness ==
  /\ Len(blocks) >= 2
  /\ blocks[2].start = blocks[1].start + TwoBars
  /\ Cardinality(NotesOf(blocks[2])) = 20

\* C20: every voice that _note, _melNote, _bassNote and the one-shot effects
\* (bell strike, ghost, tick, buzz) create, for every start time and every
\* positive duration, has its envelope at silence at the start time, back at
\* zero strictly after the start time, and its oscillator or source stopped
\* at or after that return to zero.
C20_VoiceEnvelope ==
  lab.op = "voice" =>
    /\ lab.out.start = lab.t
    /\ lab.out.silentAt = lab.out.start
    /\ lab.out.zero > lab.out.start
    /\ lab.out.stop >= lab.out.zero

\* a 1 ms arpeggio note started at 3.94 s
C20_Witness ==
  /\ lab.op = "voice"
  /\ lab.kind = "_note"
  /\ lab.dur = 1000
  /\ lab.t = TwoBars + StartEpsilon
  /\ lab.out.stop = lab.t + 51000

\* C21: a musicStart() that follows a musicStop() is audible at once:
\* whenever a block is generated after a restart (musicStop() was called and
\* musicStart() was called since), the music bus gain target is the default
\* level 0.18, whatever the delay between the stop and the restart.
C21_RestartAudible ==
  [][(blocks' # blocks /\ stopSeen' /\ ~stopLatch') =>
       _musicBus' = MusicBusDefault]_vars

\* C22: musicFade(targetGain, timeConstant) moves the music bus gain target
\* to targetGain in every scheduler state (Idle before the first start,
\* Running, Idle after a stop) and changes neither the effects bus gain nor
\* the running flag, the watermark, the phrase counter or the tick timer.
C22_FadeSetsTarget ==
  [][\A toVol \in FadeTargets :
       musicFadeTo(toVol) =>
         /\ _musicBus' = toVol
         /\ UNCHANGED <<master, _vol, _musicPlaying, _musicScheduled,
                         _phraseCount, _musicTimer, timers>>]_vars

\* C23: no public entry point submits a gain ramp or schedules a node while
\* the pipeline is still suspended: every one of them waits for the
\* become-ready step first, so across a step that leaves the context
\* suspended the bus targets and the scheduled voices and blocks stay as
\* they were.
C23_NothingWhileSuspended ==
  [][(ctx = "suspended" /\ ctx' = "suspended") =>
       UNCHANGED <<master, _musicBus, fx, blocks>>]_vars

\* C24: generation goes on: once musicStart() has taken effect, with no
\* musicStop() afterwards, timers firing in the end and the clock advancing,
\* a tick timer is armed whenever the scheduler runs (every tick re-arms the
\* next) and the watermark passes every time T of the clock in the end: it
\* ends up past the last clock reading MaxOnceClock, so past every T before.
C24_KeepsGenerating ==
  /\ [](_musicPlaying => TickTimers # {})
  /\ (inits >= 1) ~> (_musicScheduled > MaxOnceClock)

\* the watermark is past the end of the clock after three blocks or more
C24_Witness ==
  /\ inits = 1
  /\ _musicPlaying
  /\ Len(blocks) >= 3
  /\ _musicScheduled > MaxOnceClock
  /\ TickTimers # {}

====
